---- MODULE Spec2Model ----
(***************************************************************************)
(* Approval/notification bus (ClineMessageHandler) and tool dispatcher     *)
(* (ToolManager) of the agent core.                                        *)
(*                                                                         *)
(* JavaScript runs every handler to its first real suspension point        *)
(* without interleaving, so each action below is one such run: the         *)
(* synchronous prefix of ask()/say()/executeTool(), or the continuation    *)
(* that follows a suspension (a pWaitFor poll, the end of tool.execute).   *)
(* Variables that exist only to state properties (they are never read by   *)
(* a guard or an assignment of the program) are marked "history".          *)
(***************************************************************************)
EXTENDS Integers, Sequences, FiniteSets, TLC

\* ------------------------------------------------------------------ bounds
MaxClock == 2
MaxMessages == 2
MaxAsks == 2
MaxResponses == 1
MaxCalls == 2
MaxLines == 1
MaxBackgroundLines == 1
MaxBlocks == 2
MaxChunks == 3
MaxRequests == 2
MaxPairs == 4

\* ------------------------------------------------------------- value sets
Undefined == "undefined"
Responses == {"yesButtonClicked", "noButtonClicked", "messageResponse"}
Texts     == {"t1", "t2"}
ImageSets == {Undefined, "img"}
AskKinds  == {"tool", "command_output"}
SayKinds  == {"text", "command_output"}
PartialArgs == {"true", "false", Undefined}  \* the optional partial?: boolean

VARIABLES
    now,                \* the value Date.now() returns
    clineMessages,      \* ClineMessageHandler.clineMessages
    askResponse,        \* ClineMessageHandler.askResponse (its .response)
    askResponseText,    \* ClineMessageHandler.askResponseText
    askResponseImages,  \* ClineMessageHandler.askResponseImages
    lastMessageTs,      \* ClineMessageHandler.lastMessageTs
    asks,               \* the ask() activations, in call order
    delivered,          \* history: id and addressee of the stored response
    lastCall,           \* history: the last ask()/say() call and what it met
    tools,              \* ToolManager.tools (the registered names)
    didRejectTool,      \* ToolManager.didRejectTool
    didAlreadyUseTool,  \* ToolManager.didAlreadyUseTool
    call,               \* the executeTool() activation in progress
    callCount,          \* number of executeTool() calls made so far
    command,            \* locals of ExecuteCommandTool.execute() in progress
    turn,               \* history: what happened since the last reset()
    lastOutcome,        \* history: how the last executeTool() call ended
    abort,              \* Cline.abort
    assistantMessageContent,            \* Cline.assistantMessageContent
    currentStreamingContentIndex,       \* Cline.currentStreamingContentIndex
    presentAssistantMessageLocked,      \* Cline.presentAssistantMessageLocked
    presentAssistantMessageHasPendingUpdates,
    userMessageContentReady,            \* Cline.userMessageContentReady
    didCompleteReadingStream,           \* Cline.didCompleteReadingStream
    clineDidRejectTool,     \* this.didRejectTool of presentAssistantMessage
    clineDidAlreadyUseTool, \* this.didAlreadyUseTool of presentAssistantMessage
    activations,        \* the suspended presentAssistantMessage() activations
    loop,               \* position of initiateTaskLoop and its current request
    shown,              \* history: what the presenter did in this turn
    userMessageContent,         \* Cline.userMessageContent (kinds of its items)
    consecutiveMistakeCount,    \* Cline.consecutiveMistakeCount
    apiConversationHistory,     \* Cline.apiConversationHistory
    apiReqTokens,       \* the request message updateApiReqMsg wrote last: its
                        \* index in the log and the token total written
    contextWindow,      \* api.getModel().info.contextWindow, 0 if not given
    alwaysAllowReadOnly,    \* ToolContext.alwaysAllowReadOnly
    creation            \* the arguments of the Cline constructor and what it did

busVars == <<clineMessages, askResponse, askResponseText, askResponseImages,
             lastMessageTs, asks, delivered, lastCall>>
toolVars == <<tools, didRejectTool, didAlreadyUseTool, call, callCount,
              command, turn, lastOutcome>>
presenterFlags == <<currentStreamingContentIndex, presentAssistantMessageLocked,
                    presentAssistantMessageHasPendingUpdates,
                    userMessageContentReady, clineDidRejectTool,
                    clineDidAlreadyUseTool, activations, shown>>
presenterVars == <<presenterFlags, userMessageContent, consecutiveMistakeCount>>
configVars == <<contextWindow, alwaysAllowReadOnly, creation>>
historyVars == <<apiConversationHistory, apiReqTokens, configVars>>
loopVars == <<abort, assistantMessageContent, didCompleteReadingStream, loop,
              presenterVars, historyVars>>
vars == <<now, busVars, toolVars, loopVars>>

\* ---------------------------------------------------- ClineMessageHandler
Message(ts, type, kind, text, images, partial) ==
    [ts |-> ts, type |-> type, kind |-> kind, text |-> text,
     images |-> images, partial |-> partial]

\* lastMessage && lastMessage.partial && lastMessage.type === t && kind === k
IsUpdatingPreviousPartial(msgs, type, kind) ==
    /\ Len(msgs) > 0
    /\ msgs[Len(msgs)].partial
    /\ msgs[Len(msgs)].type = type
    /\ msgs[Len(msgs)].kind = kind

ReplaceLast(msgs, m) == [msgs EXCEPT ![Len(msgs)] = m]

\* a say() that forgets the attachments when it replaces in place
SayMessagesKeepsImages(msgs, t, kind, text, images, partial) ==
    IF partial # Undefined /\ IsUpdatingPreviousPartial(msgs, "say", kind)
    THEN ReplaceLast(msgs, [msgs[Len(msgs)] EXCEPT !.text = text,
                               !.partial = (partial = "true")])
    ELSE Append(msgs, Message(t, "say", kind, text, images, partial = "true"))

\* the message log after say(kind, text, images, partial) at time t
SayMessages(msgs, t, kind, text, images, partial) ==
    IF partial # Undefined /\ IsUpdatingPreviousPartial(msgs, "say", kind)
    THEN ReplaceLast(msgs, [msgs[Len(msgs)] EXCEPT !.text = text,
                               !.images = images, !.partial = (partial = "true")])
    ELSE Append(msgs, Message(t, "say", kind, text, images, partial = "true"))

\* a say() that appends a message without taking its timestamp as the
\* newest
SayLastMessageTsKeeps(msgs, lmts, t, kind, partial) ==
    IF partial # Undefined /\ IsUpdatingPreviousPartial(msgs, "say", kind)
    THEN IF partial = "true" THEN lmts ELSE msgs[Len(msgs)].ts
    ELSE lmts

\* lastMessageTs after say(kind, text, images, partial) at time t
SayLastMessageTs(msgs, lmts, t, kind, partial) ==
    IF partial # Undefined /\ IsUpdatingPreviousPartial(msgs, "say", kind)
    THEN IF partial = "true" THEN lmts ELSE msgs[Len(msgs)].ts
    ELSE t

\* the message log after the synchronous part of ask(kind, text, partial)
AskMessages(msgs, t, kind, text, partial) ==
    IF partial # Undefined /\ IsUpdatingPreviousPartial(msgs, "ask", kind)
    THEN ReplaceLast(msgs, [msgs[Len(msgs)] EXCEPT !.text = text,
                               !.partial = (partial = "true")])
    ELSE Append(msgs, Message(t, "ask", kind, text, Undefined, partial = "true"))

\* askTs of ask(kind, text, partial); a partial update has none
AskTs(msgs, t, kind, partial) ==
    IF partial # Undefined /\ IsUpdatingPreviousPartial(msgs, "ask", kind)
    THEN IF partial = "true" THEN 0 ELSE msgs[Len(msgs)].ts
    ELSE t

\* lastMessageTs after the synchronous part of ask(kind, text, partial)
AskLastMessageTs(msgs, lmts, t, kind, partial) ==
    IF partial = "true" /\ IsUpdatingPreviousPartial(msgs, "ask", kind)
    THEN lmts
    ELSE AskTs(msgs, t, kind, partial)

\* an ask() that waits for a response whatever its partial argument
AskAfterRegisterWaits(partial) == "waiting"

\* where ask() stands after its synchronous part: a partial=true call
\* throws "Current ask promise was ignored", the others reach pWaitFor
AskAfterRegister(partial) ==
    IF partial = "true" THEN "ignored" ELSE "waiting"

\* the pWaitFor condition of an activation whose token is askTs
WaitIsOver(resp, lmts, askTs) == resp # Undefined \/ lmts # askTs

\* after pWaitFor: throw if superseded, else return the stored response
AskOutcome(lmts, askTs) == IF lmts # askTs THEN "ignored" ELSE "returned"

\* an ask() that returns the stored response without clearing it
KeptResponse(cur) == cur

\* the stored response fields after an ask has returned them
ClearedResponse(cur) == Undefined

\* asked: how many asks had registered when the response was delivered
NoDelivery == [id |-> 0, for |-> 0, late |-> FALSE, asked |-> 0]

\* caller: who awaits the activation ("env", "approval", "command") and,
\* for the tool callers, the executeTool() call it belongs to
AskRecord(kind, partial, askTs, caller, callId) ==
    [kind |-> kind, partial |-> partial, askTs |-> askTs,
     pc |-> AskAfterRegister(partial),
     caller |-> caller, callId |-> callId,
     respId |-> 0, respFor |-> 0, respLate |-> FALSE, respStale |-> FALSE,
     superseded |-> FALSE]

\* history: asks that were waiting when a newer prompt was registered
MarkSuperseded(as) ==
    [i \in DOMAIN as |->
        IF as[i].pc = "waiting" THEN [as[i] EXCEPT !.superseded = TRUE] ELSE as[i]]

\* a partial=true call that updates the provisional prompt is no new prompt
RegistersPrompt(msgs, kind, partial) ==
    ~(partial = "true" /\ IsUpdatingPreviousPartial(msgs, "ask", kind))

CallRecord(op, kind, text, images, partial, coalescing, prevLen) ==
    [op |-> op, kind |-> kind, text |-> text, images |-> images,
     partial |-> partial, coalescing |-> coalescing, prevLen |-> prevLen]

\* the fields of the handler, as one value that a handler run transforms
Bus == [msgs |-> clineMessages, lmts |-> lastMessageTs, asks |-> asks,
        resp |-> askResponse, text |-> askResponseText,
        images |-> askResponseImages, delivered |-> delivered,
        lastCall |-> lastCall]

Commit(b) ==
    /\ clineMessages' = b.msgs
    /\ lastMessageTs' = b.lmts
    /\ asks' = b.asks
    /\ askResponse' = b.resp
    /\ askResponseText' = b.text
    /\ askResponseImages' = b.images
    /\ delivered' = b.delivered
    /\ lastCall' = b.lastCall

\* ask(kind, text, partial) up to its first suspension
AskOn(b, kind, text, partial, caller, callId) ==
    [b EXCEPT
        !.msgs = AskMessages(b.msgs, now, kind, text, partial),
        !.lmts = AskLastMessageTs(b.msgs, b.lmts, now, kind, partial),
        !.asks = Append(IF RegistersPrompt(b.msgs, kind, partial)
                        THEN MarkSuperseded(b.asks) ELSE b.asks,
                        AskRecord(kind, partial, AskTs(b.msgs, now, kind, partial),
                                  caller, callId)),
        !.lastCall = CallRecord("ask", kind, text, Undefined, partial,
                                IsUpdatingPreviousPartial(b.msgs, "ask", kind),
                                Len(b.msgs))]

\* say(kind, text, images, partial) up to its first suspension
SayOn(b, kind, text, images, partial) ==
    [b EXCEPT
        !.msgs = SayMessages(b.msgs, now, kind, text, images, partial),
        !.lmts = SayLastMessageTs(b.msgs, b.lmts, now, kind, partial),
        !.lastCall = CallRecord("say", kind, text, images, partial,
                                IsUpdatingPreviousPartial(b.msgs, "say", kind),
                                Len(b.msgs))]

\* a pWaitFor poll of activation a can end its wait
CanPoll(b, a) ==
    /\ b.asks[a].pc = "waiting"
    /\ WaitIsOver(b.resp, b.lmts, b.asks[a].askTs)

\* one pWaitFor poll of activation a whose condition holds, and the code
\* of ask() that follows it
PollOn(b, a) ==
    IF AskOutcome(b.lmts, b.asks[a].askTs) = "ignored"
    THEN [b EXCEPT !.asks[a].pc = "ignored"]
    ELSE [b EXCEPT !.asks[a].pc = "returned",
                   !.asks[a].respId = b.delivered.id,
                   !.asks[a].respFor = b.delivered.for,
                   !.asks[a].respLate = b.delivered.late,
                   !.asks[a].respStale = b.delivered.asked < a,
                   !.resp = ClearedResponse(b.resp),
                   !.text = ClearedResponse(b.text),
                   !.images = ClearedResponse(b.images),
                   !.delivered = [b.delivered EXCEPT !.for = 0, !.late = FALSE,
                                                     !.asked = 0]]

\* ------------------------------------------------------------ ToolManager
ToolNames == {"write_to_file", "execute_command"}
ParamSets == {{}, {"path"}, {"path", "content"}, {"command"}}
ReadOnlyTools == {"read_file", "list_files", "search_files",
                  "list_code_definition_names"}
ReadOnlyParamSets == {{}, {"path"}, {"path", "regex"}}

\* Tool.validateParams: the first required parameter that is missing
ValidateParams(name, params) ==
    IF name = "write_to_file"
    THEN IF "path" \notin params THEN "path"
         ELSE IF "content" \notin params THEN "content" ELSE Undefined
    ELSE IF name \in ReadOnlyTools
    THEN IF "path" \notin params THEN "path"
         ELSE IF name = "search_files" /\ "regex" \notin params THEN "regex"
         ELSE Undefined
    ELSE IF "command" \notin params THEN "command" ELSE Undefined

\* JSON.stringify(tool.formatToolMessage(params)), the text of the prompt
ToolMessage(name, params) == name

\* pc: "idle", "approval" (in askToolApproval), "executing" (in
\* tool.execute), "feedback" (in the say of the operator's feedback).
\* approval, executed, afterDecline, registered, afterUse and feedback are
\* history: registered and afterUse are tools.has(name) and
\* didAlreadyUseTool as the call found them.
Idle == [pc |-> "idle", id |-> 0, name |-> Undefined, params |-> {}, ask |-> 0,
         approval |-> Undefined, executed |-> FALSE, afterDecline |-> FALSE,
         registered |-> FALSE, afterUse |-> FALSE,
         pending |-> Undefined, feedback |-> Undefined]

NoFeedback == [set |-> FALSE, text |-> Undefined, images |-> Undefined]

NoCommand == [didContinue |-> FALSE, userFeedback |-> NoFeedback,
              completed |-> FALSE, lines |-> 0]

NewTurn == [executed |-> 0, declined |-> FALSE]

\* a ToolResult (or the error thrown instead of one), with the history
\* of the call that produced it
Outcome(c, result, userRejected, feedback, thrown) ==
    [name |-> c.name, result |-> result, userRejected |-> userRejected,
     feedback |-> feedback, thrown |-> thrown,
     asked |-> c.ask # 0, approval |-> c.approval,
     executed |-> c.executed, afterDecline |-> c.afterDecline,
     registered |-> c.registered, afterUse |-> c.afterUse,
     missing |-> IF c.name = Undefined THEN Undefined
                 ELSE ValidateParams(c.name, c.params),
     operatorFeedback |-> c.feedback]

NoOutcome == Outcome(Idle, Undefined, FALSE, Undefined, FALSE)

\* an executeTool() without the check of didRejectTool
StartBranchIgnoresRejection(didReject, didUse, registered, missing) ==
    IF didUse THEN "alreadyUsed"
    ELSE IF ~registered THEN "notFound"
    ELSE IF missing # Undefined THEN "missingParam"
    ELSE "ask"

\* an executeTool() that asks for approval of a name it does not know
StartBranchSkipsLookup(didReject, didUse, registered, missing) ==
    IF didReject THEN "skipped"
    ELSE IF didUse THEN "alreadyUsed"
    ELSE IF registered /\ missing # Undefined THEN "missingParam"
    ELSE "ask"

\* an executeTool() that does not call validateParams
StartBranchSkipsValidation(didReject, didUse, registered, missing) ==
    IF didReject THEN "skipped"
    ELSE IF didUse THEN "alreadyUsed"
    ELSE IF ~registered THEN "notFound"
    ELSE "ask"

\* an executeTool() without the check of didAlreadyUseTool
StartBranchIgnoresUse(didReject, didUse, registered, missing) ==
    IF didReject THEN "skipped"
    ELSE IF ~registered THEN "notFound"
    ELSE IF missing # Undefined THEN "missingParam"
    ELSE "ask"

\* the branch executeTool(name, params) takes before any suspension
StartBranch(didReject, didUse, registered, missing) ==
    IF didReject THEN "skipped"
    ELSE IF didUse THEN "alreadyUsed"
    ELSE IF ~registered THEN "notFound"
    ELSE IF missing # Undefined THEN "missingParam"
    ELSE "ask"

\* an askToolApproval that takes a message for an approval
AskToolApprovalLenient(response) == response # "noButtonClicked"

\* askToolApproval: true only for the accepting button
AskToolApproval(response) == response = "yesButtonClicked"

\* formatResponse.toolDenied() takes no argument: the denial result
\* carries no feedback
ToolDeniedFeedback(text) == Undefined

\* a reset() that forgets the rejection and keeps the use
ToolManagerResetKeepsUse ==
    /\ didRejectTool' = FALSE
    /\ didAlreadyUseTool' = didAlreadyUseTool
    /\ turn' = NewTurn

\* ToolManager.reset(): both flags are cleared
ToolManagerReset ==
    /\ didRejectTool' = FALSE
    /\ didAlreadyUseTool' = FALSE
    /\ turn' = NewTurn

\* ------------------------------------------------- Cline: the presenter
BlockTypes == {"text", "tool_use"}

Block(type, partial) == [type |-> type, partial |-> partial]

\* the last block of a sequence with its closing delimiter seen
CloseLast(c) == IF Len(c) = 0 THEN c ELSE [c EXCEPT ![Len(c)].partial = FALSE]

\* the blocks that can follow a sequence: text after a closed tool, a tool
\* (still open, or opened and closed by the same chunk) after anything
NewBlocks(c) ==
    {Block("tool_use", TRUE), Block("tool_use", FALSE)}
    \cup (IF Len(c) = 0 \/ c[Len(c)].type = "tool_use"
          THEN {Block("text", TRUE)} ELSE {})

\* parseAssistantMessage(assistantMessage) after one more chunk of text: the
\* sequence is unchanged, or its open tool is closed, or a block follows
\* the closed sequence; text stays open until a tool tag follows it, and
\* a message that is not empty has a block
ParsedAfterChunk(c) ==
    (IF Len(c) > 0 THEN {c} ELSE {})
    \cup (IF Len(c) > 0 /\ c[Len(c)].type = "tool_use" THEN {CloseLast(c)} ELSE {})
    \cup (IF Len(c) < MaxBlocks
          THEN {Append(CloseLast(c), b) : b \in NewBlocks(c)} ELSE {})

\* a suspended activation: the snapshot of its block, where it stands,
\* whether the stream loop awaits it, and the ask it waits for
Activation(pc, index, block, awaited) ==
    [pc |-> pc, index |-> index, type |-> block.type, partial |-> block.partial,
     awaited |-> awaited, ask |-> 0]

\* history of one turn: how often each block reached its approval prompt,
\* how many blocks were finished, how often "ready" went from false to true
NewShown == [dispatched |-> [i \in 0..(MaxBlocks - 1) |-> 0], finished |-> 0,
             readySets |-> 0, earlyReady |-> FALSE,
             invoked |-> 0, invokedAfterAbort |-> FALSE, accepted |-> 0]

\* the fields presentAssistantMessage works on, as one value
Presenter ==
    [locked |-> presentAssistantMessageLocked,
     pending |-> presentAssistantMessageHasPendingUpdates,
     cursor |-> currentStreamingContentIndex,
     ready |-> userMessageContentReady,
     rej |-> clineDidRejectTool, used |-> clineDidAlreadyUseTool,
     acts |-> activations, bus |-> Bus, shown |-> shown,
     content |-> userMessageContent, mistakes |-> consecutiveMistakeCount]

CommitPresenter(p) ==
    /\ presentAssistantMessageLocked' = p.locked
    /\ presentAssistantMessageHasPendingUpdates' = p.pending
    /\ currentStreamingContentIndex' = p.cursor
    /\ userMessageContentReady' = p.ready
    /\ clineDidRejectTool' = p.rej
    /\ clineDidAlreadyUseTool' = p.used
    /\ activations' = p.acts
    /\ shown' = p.shown
    /\ userMessageContent' = p.content
    /\ consecutiveMistakeCount' = p.mistakes
    /\ Commit(p.bus)

\* this.userMessageContentReady = true
SetReady(p, complete) ==
    [p EXCEPT !.ready = TRUE,
              !.shown.readySets = IF p.ready THEN @ ELSE @ + 1,
              !.shown.earlyReady = @ \/ ~complete]

\* a presenter that takes no notice of the lock
NeverLocked(locked) == FALSE

\* if (this.presentAssistantMessageLocked)
IsLocked(locked) == locked

\* a presenter that clears the pending flag and leaves the lock open
TakeLockLeavesOpen(p) == [p EXCEPT !.pending = FALSE]

\* this.presentAssistantMessageLocked = true
\* this.presentAssistantMessageHasPendingUpdates = false
TakeLock(p) == [p EXCEPT !.locked = TRUE, !.pending = FALSE]

\* if (!block.partial || this.didRejectTool || this.didAlreadyUseTool)
BlockFinished(partial, rej, used) == ~partial \/ rej \/ used

RECURSIVE Present(_, _, _, _, _)
RECURSIVE AfterBlock(_, _, _, _, _)

\* presentAssistantMessage() up to its first suspension, on block sequence
\* c; complete and ab are didCompleteReadingStream and abort. A text block
\* suspends in say(), a tool block in closeBrowser(); a block met after a
\* rejection or a use is passed over without suspension.
Present(p, c, complete, ab, awaited) ==
    IF ab THEN p
    ELSE IF IsLocked(p.locked) THEN [p EXCEPT !.pending = TRUE]
    ELSE LET q == TakeLock(p)
         IN  IF q.cursor >= Len(c)
             THEN [(IF complete THEN SetReady(q, complete) ELSE q)
                       EXCEPT !.locked = FALSE]
             ELSE LET b == c[q.cursor + 1]
                  IN  IF q.rej \/ q.used
                      THEN AfterBlock(IF b.type = "tool_use"
                                      THEN [q EXCEPT !.content = Append(@, "skipped")]
                                      ELSE q,
                                      b.partial, c, complete, ab)
                      ELSE IF b.type = "text"
                      THEN [q EXCEPT
                              !.bus = SayOn(q.bus, "text", "t1", Undefined,
                                            IF b.partial THEN "true" ELSE "false"),
                              !.acts = @ \cup {Activation("say", q.cursor, b, awaited)}]
                      ELSE [q EXCEPT
                              !.acts = @ \cup {Activation("tool", q.cursor, b, awaited)}]

\* the code of presentAssistantMessage() after the switch, for an
\* activation whose snapshot had partial flag "partial"
AfterBlock(p, partial, c, complete, ab) ==
    LET q == [p EXCEPT !.locked = FALSE]
    IN  IF BlockFinished(partial, q.rej, q.used)
        THEN LET r == [(IF q.cursor = Len(c) - 1 THEN SetReady(q, complete) ELSE q)
                          EXCEPT !.cursor = @ + 1, !.shown.finished = @ + 1]
             IN  IF r.cursor < Len(c)
                 THEN Present(r, c, complete, ab, FALSE)
                 ELSE IF r.pending THEN Present(r, c, complete, ab, FALSE) ELSE r
        ELSE IF q.pending THEN Present(q, c, complete, ab, FALSE) ELSE q

\* ---------------------------------------------- Cline: presenter actions
\* where the stream loop stands once the activation it awaited is over
LoopResumed(pc) ==
    IF pc = "presentAwait" THEN "afterChunk"
    ELSE IF pc = "finalPresentAwait" THEN "updating" ELSE pc

\* an activation is over: the presenter fields it leaves, and the stream
\* loop's await of it
ActivationOver(a, p) ==
    /\ CommitPresenter(p)
    /\ loop' = IF a.awaited THEN [loop EXCEPT !.pc = LoopResumed(@)] ELSE loop

\* activation a leaves the switch: the code after it, run on the fields
\* as they are now
Leave(a, p) ==
    ActivationOver(a, AfterBlock([p EXCEPT !.acts = @ \ {a}], a.partial,
                                 assistantMessageContent,
                                 didCompleteReadingStream, abort))

\* activation a moves to another suspension point
Move(a, p, b) ==
    /\ CommitPresenter([p EXCEPT !.acts = (@ \ {a}) \cup {b}])
    /\ UNCHANGED loop

\* pushToolResult(content): the result joins the next user content
PushToolResult(p) == [p EXCEPT !.used = TRUE, !.content = Append(@, "result")]

\* askApproval: response === "yesButtonClicked"
AskApproval(response) == response = "yesButtonClicked"

\* a presenter that records the text it has shown in the history
PresenterSayDoneWritesHistory(a) ==
    /\ a.pc = "say"
    /\ Leave(a, Presenter)
    /\ apiConversationHistory' =
          Append(apiConversationHistory,
                 [role |-> "assistant", notices |-> 0, request |-> loop.requests,
                  mistakes |-> consecutiveMistakeCount])
    /\ UNCHANGED <<now, toolVars, abort, assistantMessageContent,
                   didCompleteReadingStream, apiReqTokens, configVars>>

\* the say("text") of a text block is over
PresenterSayDone(a) ==
    /\ a.pc = "say"
    /\ Leave(a, Presenter)
    /\ UNCHANGED <<now, toolVars, abort, assistantMessageContent,
                   didCompleteReadingStream, historyVars>>

\* closeBrowser() is over: a streaming tool block shows its provisional
\* prompt, a complete one asks for approval
PresenterBrowserClosed(a) ==
    /\ a.pc = "tool"
    /\ IF a.partial
       THEN Move(a, [Presenter EXCEPT
                        !.bus = AskOn(Bus, "tool", "t1", "true", "presenter", 0)],
                 [a EXCEPT !.pc = "partialAsk"])
       ELSE Move(a, [Presenter EXCEPT
                        !.bus = AskOn(Bus, "tool", "t1", "false", "presenter", 0),
                        !.mistakes = 0,
                        !.shown.dispatched[a.index] = @ + 1],
                 [a EXCEPT !.pc = "approval", !.ask = Len(asks) + 1])
    /\ UNCHANGED <<now, toolVars, abort, assistantMessageContent,
                   didCompleteReadingStream, historyVars>>

\* the provisional prompt's ask has thrown and .catch() has swallowed it
PresenterPartialAskDone(a) ==
    /\ a.pc = "partialAsk"
    /\ Leave(a, Presenter)
    /\ UNCHANGED <<now, toolVars, abort, assistantMessageContent,
                   didCompleteReadingStream, historyVars>>

\* the approval ask of activation a ends: askApproval and the tool's code
\* up to the next suspension
PresenterApprovalResolved(a) ==
    /\ a.pc = "approval"
    /\ CanPoll(Bus, a.ask)
    /\ LET polled == [Presenter EXCEPT !.bus = PollOn(Bus, a.ask)]
       IN  IF polled.bus.asks[a.ask].pc = "ignored"
           THEN Move(a, [polled EXCEPT
                            !.bus = SayOn(@, "error", "error", Undefined, Undefined)],
                     [a EXCEPT !.pc = "error"])
           ELSE IF AskApproval(askResponse)
           THEN Move(a, [polled EXCEPT
                            !.shown.invoked = @ + 1,
                            !.shown.invokedAfterAbort = @ \/ abort],
                     [a EXCEPT !.pc = "executing"])
           ELSE IF askResponse = "messageResponse"
           THEN Move(a, [polled EXCEPT
                            !.bus = SayOn(@, "user_feedback", askResponseText,
                                          askResponseImages, Undefined)],
                     [a EXCEPT !.pc = "feedback"])
           ELSE Leave(a, [PushToolResult(polled) EXCEPT !.rej = TRUE])
    /\ UNCHANGED <<now, toolVars, abort, assistantMessageContent,
                   didCompleteReadingStream, historyVars>>

\* the say("user_feedback") of a declined tool is over
PresenterFeedbackSaid(a) ==
    /\ a.pc = "feedback"
    /\ Leave(a, [PushToolResult(Presenter) EXCEPT !.rej = TRUE])
    /\ UNCHANGED <<now, toolVars, abort, assistantMessageContent,
                   didCompleteReadingStream, historyVars>>

\* the tool's work returns its result
PresenterToolReturns(a) ==
    /\ a.pc = "executing"
    /\ Leave(a, PushToolResult(Presenter))
    /\ UNCHANGED <<now, toolVars, abort, assistantMessageContent,
                   didCompleteReadingStream, historyVars>>

\* the tool's work throws: handleError up to its say("error")
PresenterToolThrows(a) ==
    /\ a.pc = "executing"
    /\ Move(a, [Presenter EXCEPT
                   !.bus = SayOn(Bus, "error", "error", Undefined, Undefined)],
            [a EXCEPT !.pc = "error"])
    /\ UNCHANGED <<now, toolVars, abort, assistantMessageContent,
                   didCompleteReadingStream, historyVars>>

\* the say("error") of handleError is over
PresenterErrorSaid(a) ==
    /\ a.pc = "error"
    /\ Leave(a, PushToolResult(Presenter))
    /\ UNCHANGED <<now, toolVars, abort, assistantMessageContent,
                   didCompleteReadingStream, historyVars>>

\* ----------------------------- Cline: presenter actions, attempt_completion
\* closeBrowser() is over for an attempt_completion block without a
\* command: a streaming block shows its result so far, a complete one
\* without a result reports the missing parameter, a complete one with a
\* result shows it
PresenterCompletionShown(a, hasResult) ==
    /\ a.pc = "tool"
    /\ IF a.partial
       THEN Move(a, [Presenter EXCEPT
                        !.bus = SayOn(Bus, "completion_result", "t1", Undefined, "true")],
                 [a EXCEPT !.pc = "say"])
       ELSE IF ~hasResult
       THEN Move(a, [Presenter EXCEPT
                        !.mistakes = @ + 1,
                        !.bus = SayOn(Bus, "error", "error", Undefined, Undefined)],
                 [a EXCEPT !.pc = "error"])
       ELSE Move(a, [Presenter EXCEPT
                        !.mistakes = 0,
                        !.bus = SayOn(Bus, "completion_result", "t1", Undefined, "false")],
                 [a EXCEPT !.pc = "completionSaid"])
    /\ UNCHANGED <<now, toolVars, abort, assistantMessageContent,
                   didCompleteReadingStream, historyVars>>

\* the say of the result is over: ask("completion_result", "", false)
PresenterCompletionAsked(a) ==
    /\ a.pc = "completionSaid"
    /\ Move(a, [Presenter EXCEPT
                   !.bus = AskOn(Bus, "completion_result", "", "false", "presenter", 0),
                   !.shown.dispatched[a.index] = @ + 1],
            [a EXCEPT !.pc = "completion", !.ask = Len(asks) + 1])
    /\ UNCHANGED <<now, toolVars, abort, assistantMessageContent,
                   didCompleteReadingStream, historyVars>>

\* the ask ends: an accepted result is pushed as an empty tool result,
\* anything else is feedback that is said first; number (history) is the
\* request under way
CompletionAccepted(p, number) ==
    [PushToolResult(p) EXCEPT !.shown.accepted = number]

PresenterCompletionResolved(a) ==
    /\ a.pc = "completion"
    /\ CanPoll(Bus, a.ask)
    /\ LET polled == [Presenter EXCEPT !.bus = PollOn(Bus, a.ask)]
       IN  IF polled.bus.asks[a.ask].pc = "ignored"
           THEN Move(a, [polled EXCEPT
                            !.bus = SayOn(@, "error", "error", Undefined, Undefined)],
                     [a EXCEPT !.pc = "error"])
           ELSE IF askResponse = "yesButtonClicked"
           THEN Leave(a, CompletionAccepted(polled, loop.requests))
           ELSE Move(a, [polled EXCEPT
                            !.bus = SayOn(@, "user_feedback", askResponseText,
                                          askResponseImages, Undefined)],
                     [a EXCEPT !.pc = "completionFeedback"])
    /\ UNCHANGED <<now, toolVars, abort, assistantMessageContent,
                   didCompleteReadingStream, historyVars>>

\* the say("user_feedback") is over: the feedback joins the next user
\* content
PresenterCompletionFeedbackSaid(a) ==
    /\ a.pc = "completionFeedback"
    /\ Leave(a, [Presenter EXCEPT !.content = Append(@, "result")])
    /\ UNCHANGED <<now, toolVars, abort, assistantMessageContent,
                   didCompleteReadingStream, historyVars>>

\* -------------------------------------------------- Cline: the task loop
\* loop.pc: "idle" (initiateTaskLoop at its while test), "preparing" (in
\* the awaits before the streaming state is reset), "creating" (in the
\* awaits of createApiStream), "streaming" (waiting for a chunk),
\* "presentAwait" / "finalPresentAwait" (awaiting presentAssistantMessage),
\* "afterChunk", "updating" (in updateApiReqMsg), "waitReady" (in
\* pWaitFor), "aborting" (in handleStreamAbort), "done" (initiateTaskLoop
\* has returned).
\* requests counts the createApiStream() calls, chunks the text chunks of
\* the current stream; userContent is the argument of the request (aliased:
\* it is the array this.userMessageContent itself), previousApiReqIndex
\* its local of that name. truncated (history): this request has called
\* overwriteApiConversationHistory.
NewLoop == [pc |-> "idle", requests |-> 0, chunks |-> 0,
            userContent |-> <<"task">>, aliased |-> FALSE,
            previousApiReqIndex |-> -1, truncated |-> FALSE]

\* a task loop that does not wait for the turn result
ReadyToContinueAnyway(ready) == TRUE

\* the pWaitFor condition of the task loop
ReadyToContinue(ready) == ready

\* where the caller of presentAssistantMessage() stands after the call:
\* awaiting the activation if it suspended, past the await otherwise
AwaitOrGo(p, waiting, going) ==
    IF \E a \in p.acts : a.awaited THEN waiting ELSE going

\* handleStreamAbort: the last message of the log loses its partial flag
\* and the log is re-announced, then the request message is updated and
\* the log re-announced again
HandleStreamAbortOn(b) ==
    LET n == Len(b.msgs)
        closed == IF n > 0 /\ b.msgs[n].partial
                  THEN SayOn([b EXCEPT !.msgs[n].partial = FALSE],
                             "text", "log", Undefined, Undefined)
                  ELSE b
    IN  SayOn(closed, "text", "log", Undefined, Undefined)

\* findLastIndex(messages, (m) => m.say === kind), counted from 0
FindLastIndex(msgs, kind) ==
    LET found == {i \in DOMAIN msgs : msgs[i].type = "say" /\ msgs[i].kind = kind}
    IN  IF found = {} THEN -1
        ELSE (CHOOSE i \in found : \A j \in found : j <= i) - 1

\* no request message has token totals yet
NoTokens == [index |-> -1, total |-> 0]

\* a record of the conversation history: its role and, of its content,
\* the number of "no tool was used" notices; request and mistakes
\* (history) are the request that added it and consecutiveMistakeCount at
\* that time
HistoryRecord(role, content, request, mistakes) ==
    [role |-> role,
     notices |-> Cardinality({i \in DOMAIN content : content[i] = "notice"}),
     request |-> request, mistakes |-> mistakes]

\* a history that keeps no assistant record
AddDropsAssistant(h, message) ==
    IF message.role = "assistant" THEN h ELSE Append(h, message)

\* addToApiConversationHistory(message)
AddToApiConversationHistory(h, message) == Append(h, message)

\* a history that is extended where it should be replaced
OverwriteAppends(h, newHistory) == h \o newHistory

\* overwriteApiConversationHistory(newHistory)
OverwriteApiConversationHistory(h, newHistory) == newHistory

\* truncateHalfConversation(messages): the first record stays, the oldest
\* half of the pairs that follow it goes
TruncateHalfConversation(h) ==
    IF Len(h) = 0 THEN h
    ELSE LET pairs == (Len(h) - 1) \div 2
             removed == 2 * (pairs \div 2)
         IN  <<h[1]>> \o SubSeq(h, removed + 2, Len(h))

\* this.api.getModel().info.contextWindow || 128_000
DefaultContextWindow == 128000
ContextWindow(window) == IF window = 0 THEN DefaultContextWindow ELSE window

\* a threshold of the reserve alone
ReachesReserveOnly(totalTokens, window) == totalTokens >= window - 40000

\* totalTokens >= Math.max(contextWindow - 40_000, contextWindow * 0.8),
\* the product compared in fifths
ReachesMaxAllowedSize(totalTokens, window) ==
    /\ totalTokens >= window - 40000
    /\ 5 * totalTokens >= 4 * window

\* createApiStream: the test that guards the truncation
NeedsTruncation(previousApiReqIndex, previousText, totalTokens, window) ==
    /\ previousApiReqIndex >= 0
    /\ previousText # Undefined
    /\ ReachesMaxAllowedSize(totalTokens, ContextWindow(window))

\* a truncation that fails half way and leaves its work behind
AfterFailedTruncationHalfDone(h) == SubSeq(h, 1, Len(h) - 1)

\* the history after truncateHalfConversation has thrown: the assignment
\* of overwriteApiConversationHistory was not reached
AfterFailedTruncation(h) == h

\* a test of the last block alone
DidToolUseAtEnd(c) == Len(c) > 0 /\ c[Len(c)].type = "tool_use"

\* assistantMessageContent.some((block) => block.type === "tool_use")
DidToolUse(c) == \E i \in DOMAIN c : c[i].type = "tool_use"

\* the token totals a provider can report for a request: just below the
\* threshold of the default window and on it; the total of a request that
\* no later request can follow is read by nobody and left at the first
TokenTotals == {102399, 102400}
ReportedTotals(requests) ==
    IF requests < MaxRequests THEN TokenTotals ELSE {102399}

\* recursivelyMakeClineRequests(userContent) from its entry to its first
\* suspension, for a caller standing at "from"
EnterRequest(from, userContent, aliased) ==
    /\ loop.pc = from
    /\ IF abort
       THEN /\ loop' = [loop EXCEPT !.pc = "done"]
            /\ UNCHANGED busVars
       ELSE /\ loop.requests < MaxRequests
            /\ loop' = [loop EXCEPT
                           !.pc = "preparing",
                           !.userContent = userContent, !.aliased = aliased,
                           !.previousApiReqIndex =
                               FindLastIndex(clineMessages, "api_req_started")]
            /\ Commit(SayOn(Bus, "api_req_started", "request", Undefined, Undefined))
    /\ UNCHANGED <<now, toolVars, abort, assistantMessageContent,
                   didCompleteReadingStream, presenterFlags, historyVars>>

\* initiateTaskLoop: the while test and the call of
\* recursivelyMakeClineRequests(nextUserContent)
BeginRequest ==
    /\ EnterRequest("idle", loop.userContent, FALSE)
    /\ UNCHANGED <<userMessageContent, consecutiveMistakeCount>>

\* the awaits before the stream are over: the user record joins the
\* history, the streaming state is reset and createApiStream() is called
StartStream ==
    /\ loop.pc = "preparing"
    /\ apiConversationHistory' =
          AddToApiConversationHistory(
              apiConversationHistory,
              HistoryRecord("user",
                            IF loop.aliased THEN userMessageContent
                            ELSE loop.userContent,
                            loop.requests + 1, consecutiveMistakeCount))
    /\ currentStreamingContentIndex' = 0
    /\ assistantMessageContent' = <<>>
    /\ didCompleteReadingStream' = FALSE
    /\ userMessageContent' = <<>>
    /\ userMessageContentReady' = FALSE
    /\ ToolManagerReset
    /\ presentAssistantMessageLocked' = FALSE
    /\ presentAssistantMessageHasPendingUpdates' = FALSE
    /\ shown' = [NewShown EXCEPT !.invokedAfterAbort = shown.invokedAfterAbort,
                                 !.accepted = shown.accepted]
    /\ loop' = [loop EXCEPT !.pc = "creating", !.requests = @ + 1, !.chunks = 0,
                            !.aliased = FALSE, !.truncated = FALSE]
    /\ UNCHANGED <<now, busVars, tools, call, callCount, command, lastOutcome,
                   abort, clineDidRejectTool, clineDidAlreadyUseTool, activations,
                   consecutiveMistakeCount, apiReqTokens, configVars>>

\* (tokensIn || 0) + (tokensOut || 0) + (cacheWrites || 0) + (cacheReads || 0)
\* of the request message before this one
PreviousTotal ==
    IF apiReqTokens.index = loop.previousApiReqIndex
    THEN apiReqTokens.total ELSE 0

\* the text of the request message before this one
PreviousText ==
    IF loop.previousApiReqIndex < 0 THEN Undefined
    ELSE clineMessages[loop.previousApiReqIndex + 1].text

\* createApiStream after its awaits: the history is truncated if the
\* request before this one came close to the window, and the provider is
\* called
CreateApiStream ==
    /\ loop.pc = "creating"
    /\ IF NeedsTruncation(loop.previousApiReqIndex, PreviousText,
                          PreviousTotal, contextWindow)
       THEN /\ apiConversationHistory' =
                  OverwriteApiConversationHistory(
                      apiConversationHistory,
                      TruncateHalfConversation(apiConversationHistory))
            /\ loop' = [loop EXCEPT !.pc = "streaming", !.truncated = TRUE]
       ELSE /\ loop' = [loop EXCEPT !.pc = "streaming"]
            /\ UNCHANGED apiConversationHistory
    /\ UNCHANGED <<now, busVars, toolVars, abort, assistantMessageContent,
                   didCompleteReadingStream, presenterVars, apiReqTokens,
                   configVars>>

\* truncateHalfConversation throws: createApiStream rejects, the catch of
\* recursivelyMakeClineRequests returns true and the task loop ends
TruncationThrows ==
    /\ loop.pc = "creating"
    /\ NeedsTruncation(loop.previousApiReqIndex, PreviousText,
                       PreviousTotal, contextWindow)
    /\ apiConversationHistory' = AfterFailedTruncation(apiConversationHistory)
    /\ loop' = [loop EXCEPT !.pc = "done"]
    /\ UNCHANGED <<now, busVars, toolVars, abort, assistantMessageContent,
                   didCompleteReadingStream, presenterVars, apiReqTokens,
                   configVars>>

\* the code after the stream loop, up to its first suspension
AfterStream ==
    IF abort
    THEN /\ loop' = [loop EXCEPT !.pc = "done"]
         /\ UNCHANGED <<busVars, assistantMessageContent,
                        didCompleteReadingStream, presenterVars>>
    ELSE LET c == [i \in DOMAIN assistantMessageContent |->
                      [assistantMessageContent[i] EXCEPT !.partial = FALSE]]
             p == IF c # assistantMessageContent
                  THEN Present(Presenter, c, TRUE, abort, TRUE)
                  ELSE Presenter
         IN  /\ didCompleteReadingStream' = TRUE
             /\ assistantMessageContent' = c
             /\ CommitPresenter(p)
             /\ loop' = [loop EXCEPT
                            !.pc = AwaitOrGo(p, "finalPresentAwait", "updating")]

\* a text chunk arrives: the message is parsed again and presented
StreamChunk(c) ==
    /\ loop.pc = "streaming"
    /\ loop.chunks < MaxChunks
    /\ c \in ParsedAfterChunk(assistantMessageContent)
    /\ assistantMessageContent' = c
    /\ IF abort
       THEN /\ loop' = [loop EXCEPT !.pc = "aborting", !.chunks = @ + 1]
            /\ userMessageContentReady' =
                  (userMessageContentReady /\ Len(c) <= Len(assistantMessageContent))
            /\ UNCHANGED <<busVars, currentStreamingContentIndex,
                           presentAssistantMessageLocked,
                           presentAssistantMessageHasPendingUpdates,
                           clineDidRejectTool, clineDidAlreadyUseTool,
                           activations, shown, userMessageContent,
                           consecutiveMistakeCount>>
       ELSE LET p == Present([Presenter EXCEPT
                                 !.ready = @ /\ Len(c) <= Len(assistantMessageContent)],
                             c, didCompleteReadingStream, abort, TRUE)
            IN  /\ CommitPresenter(p)
                /\ loop' = [loop EXCEPT
                               !.pc = AwaitOrGo(p, "presentAwait", "afterChunk"),
                               !.chunks = @ + 1]
    /\ UNCHANGED <<now, toolVars, abort, didCompleteReadingStream, historyVars>>

\* the stream loop after presentAssistantMessage(): the abort test and the
\* test of the dispatcher's flags
AfterChunk ==
    /\ loop.pc = "afterChunk"
    /\ IF abort
       THEN /\ loop' = [loop EXCEPT !.pc = "aborting"]
            /\ UNCHANGED <<busVars, assistantMessageContent,
                           didCompleteReadingStream, presenterVars>>
       ELSE IF didRejectTool \/ didAlreadyUseTool
       THEN AfterStream
       ELSE /\ loop' = [loop EXCEPT !.pc = "streaming"]
            /\ UNCHANGED <<busVars, assistantMessageContent,
                           didCompleteReadingStream, presenterVars>>
    /\ UNCHANGED <<now, toolVars, abort, historyVars>>

\* the stream is exhausted
StreamEnds ==
    /\ loop.pc = "streaming"
    /\ AfterStream
    /\ UNCHANGED <<now, toolVars, abort, historyVars>>

\* the stream throws: the catch block calls abortTask() and
\* handleStreamAbort("streaming_failed")
StreamFails ==
    /\ loop.pc = "streaming"
    /\ abort' = TRUE
    /\ loop' = [loop EXCEPT !.pc = "aborting"]
    /\ UNCHANGED <<now, busVars, toolVars, assistantMessageContent,
                   didCompleteReadingStream, presenterVars, historyVars>>

\* handleStreamAbort is over: the interrupted response has joined the
\* history; the abort test after the stream loop throws and
\* recursivelyMakeClineRequests returns true
AbortHandled ==
    /\ loop.pc = "aborting"
    /\ Commit(HandleStreamAbortOn(Bus))
    /\ apiConversationHistory' =
          AddToApiConversationHistory(apiConversationHistory,
                                      HistoryRecord("assistant", <<>>, loop.requests,
                                                    consecutiveMistakeCount))
    /\ loop' = [loop EXCEPT !.pc = "done"]
    /\ UNCHANGED <<now, toolVars, abort, assistantMessageContent,
                   didCompleteReadingStream, presenterVars, apiReqTokens,
                   configVars>>

\* updateApiReqMsg writes the token totals into the request message and
\* announces the log; a turn with output records it and goes on to wait
\* for its result, one without records a failure and returns false to
\* initiateTaskLoop, which answers with the notice that no tool was used
Updated ==
    /\ loop.pc = "updating"
    /\ \E total \in ReportedTotals(loop.requests) :
          apiReqTokens' = [index |-> FindLastIndex(clineMessages, "api_req_started"),
                           total |-> total]
    /\ apiConversationHistory' =
          AddToApiConversationHistory(apiConversationHistory,
                                      HistoryRecord("assistant", <<>>, loop.requests,
                                                    consecutiveMistakeCount))
    /\ IF loop.chunks > 0
       THEN /\ Commit(SayOn(Bus, "text", "log", Undefined, Undefined))
            /\ loop' = [loop EXCEPT !.pc = "waitReady"]
            /\ UNCHANGED consecutiveMistakeCount
       ELSE /\ Commit(SayOn(SayOn(Bus, "text", "log", Undefined, Undefined),
                            "error", "error", Undefined, Undefined))
            /\ loop' = [loop EXCEPT !.pc = "idle", !.userContent = <<"notice">>]
            /\ consecutiveMistakeCount' = consecutiveMistakeCount + 1
    /\ UNCHANGED <<now, toolVars, abort, assistantMessageContent,
                   didCompleteReadingStream, presenterFlags, userMessageContent,
                   configVars>>

\* pWaitFor(() => this.userMessageContentReady) is over: a turn without a
\* tool block gets the notice that no tool was used, and the recursive
\* call is made with this.userMessageContent
ReadyPolled ==
    /\ ReadyToContinue(userMessageContentReady)
    /\ LET content == IF DidToolUse(assistantMessageContent)
                      THEN userMessageContent
                      ELSE Append(userMessageContent, "notice")
       IN  /\ userMessageContent' = content
           /\ consecutiveMistakeCount' =
                 IF DidToolUse(assistantMessageContent)
                 THEN consecutiveMistakeCount ELSE consecutiveMistakeCount + 1
           /\ EnterRequest("waitReady", content, TRUE)

\* abortTask()
AbortTask ==
    /\ ~abort
    /\ abort' = TRUE
    /\ UNCHANGED <<now, busVars, toolVars, assistantMessageContent,
                   didCompleteReadingStream, loop, presenterVars, historyVars>>

\* the message handler with log msgs, and the dispatcher of a new task
InitHandlersWith(msgs) ==
    /\ now = 1
    /\ clineMessages = msgs
    /\ askResponse = Undefined
    /\ askResponseText = Undefined
    /\ askResponseImages = Undefined
    /\ lastMessageTs = IF Len(msgs) = 0 THEN 0 ELSE msgs[Len(msgs)].ts
    /\ asks = <<>>
    /\ delivered = NoDelivery
    /\ lastCall = CallRecord("none", Undefined, Undefined, Undefined, Undefined, FALSE, 0)
    /\ tools = {}
    /\ didRejectTool = FALSE
    /\ didAlreadyUseTool = FALSE
    /\ call = Idle
    /\ callCount = 0
    /\ command = NoCommand
    /\ turn = NewTurn
    /\ lastOutcome = NoOutcome

InitHandlers == InitHandlersWith(<<>>)

\* the streaming state of a new task
InitStreaming ==
    /\ abort = FALSE
    /\ assistantMessageContent = <<>>
    /\ currentStreamingContentIndex = 0
    /\ presentAssistantMessageLocked = FALSE
    /\ presentAssistantMessageHasPendingUpdates = FALSE
    /\ userMessageContentReady = FALSE
    /\ didCompleteReadingStream = FALSE
    /\ clineDidRejectTool = FALSE
    /\ clineDidAlreadyUseTool = FALSE
    /\ activations = {}
    /\ shown = NewShown
    /\ userMessageContent = <<>>
    /\ consecutiveMistakeCount = 0

\* what the constructor did for a task with text "t1": startTask
StartedTask == [state |-> "started", historyItem |-> Undefined, task |-> "t1",
                images |-> Undefined, alwaysAllowReadOnly |-> Undefined]

\* a task constructed without the alwaysAllowReadOnly option
InitConfig ==
    /\ alwaysAllowReadOnly = FALSE
    /\ creation = StartedTask

\* a new task of a model that states no context window
Init ==
    /\ InitHandlers
    /\ InitStreaming
    /\ InitConfig
    /\ loop = NewLoop
    /\ apiConversationHistory = <<>>
    /\ apiReqTokens = NoTokens
    /\ contextWindow = 0

\* time passes: a later Date.now() may return the same or a larger value
Tick ==
    /\ now < MaxClock
    /\ now' = now + 1
    /\ UNCHANGED <<busVars, toolVars, loopVars>>

\* ask(kind, text, partial) by a caller other than the tools
Ask(kind, text, partial) ==
    /\ Len(asks) < MaxAsks
    /\ Len(AskMessages(clineMessages, now, kind, text, partial)) <= MaxMessages
    /\ Commit(AskOn(Bus, kind, text, partial, "env", 0))
    /\ UNCHANGED <<now, loopVars, toolVars>>

\* the end of the wait of an ask made by a caller other than the tools
AskPoll(a) ==
    /\ asks[a].caller = "env"
    /\ CanPoll(Bus, a)
    /\ Commit(PollOn(Bus, a))
    /\ UNCHANGED <<now, loopVars, toolVars>>

\* say(kind, text, images, partial) by a caller other than the tools
Say(kind, text, images, partial) ==
    /\ Len(SayMessages(clineMessages, now, kind, text, images, partial)) <= MaxMessages
    /\ Commit(SayOn(Bus, kind, text, images, partial))
    /\ UNCHANGED <<now, loopVars, toolVars>>

\* the prompts an operator response can be an answer to: the non-partial
\* asks that have not returned; 0 stands for a message sent unprompted
Answerable == {0} \cup {a \in DOMAIN asks :
                            asks[a].partial # "true" /\ asks[a].pc # "returned"}

\* handleWebviewAskResponse(askResponse, text, images); the operator
\* answers the prompt of activation target, which the handler is not told
HandleWebviewAskResponse(response, text, images, target) ==
    /\ target \in Answerable
    /\ askResponse' = response
    /\ askResponseText' = text
    /\ askResponseImages' = images
    /\ delivered' = [id |-> delivered.id + 1, for |-> target,
                     late |-> target # 0 /\ asks[target].superseded,
                     asked |-> Len(asks)]
    /\ UNCHANGED <<now, loopVars, clineMessages, lastMessageTs, asks, lastCall, toolVars>>

\* registerTool(name, tool)
RegisterTool(name) ==
    /\ name \notin tools
    /\ tools' = tools \cup {name}
    /\ UNCHANGED <<now, loopVars, busVars, didRejectTool, didAlreadyUseTool, call,
                   callCount, command, turn, lastOutcome>>

\* reset(), by the caller of executeTool at the start of a turn
Reset ==
    /\ call.pc = "idle"
    /\ ToolManagerReset
    /\ UNCHANGED <<now, loopVars, busVars, tools, call, callCount, command, lastOutcome>>

\* executeTool() returns (or throws) outcome o
Finish(o) ==
    /\ lastOutcome' = o
    /\ call' = Idle

\* executeTool(name, params) up to its first suspension; the caller awaits
\* each call before it makes the next
ExecuteTool(name, params) ==
    /\ call.pc = "idle"
    /\ callCount < MaxCalls
    /\ callCount' = callCount + 1
    /\ LET c == [Idle EXCEPT !.id = callCount + 1, !.name = name,
                             !.params = params, !.afterDecline = turn.declined,
                             !.registered = name \in tools,
                             !.afterUse = didAlreadyUseTool]
           branch == StartBranch(didRejectTool, didAlreadyUseTool,
                                 name \in tools, ValidateParams(name, params))
       IN  IF branch = "ask"
           THEN /\ Commit(AskOn(Bus, "tool", ToolMessage(name, params), "false",
                                "approval", c.id))
                /\ call' = [c EXCEPT !.pc = "approval", !.ask = Len(asks) + 1]
                /\ lastOutcome' = NoOutcome
           ELSE /\ Finish(Outcome(c, branch, branch # "notFound", Undefined,
                                  branch = "notFound"))
                /\ UNCHANGED busVars
    /\ UNCHANGED <<now, loopVars, tools, didRejectTool, didAlreadyUseTool, command, turn>>

\* the approval ask of the call in progress ends: askToolApproval and the
\* code of executeTool up to the next suspension
ApprovalResolved ==
    /\ call.pc = "approval"
    /\ CanPoll(Bus, call.ask)
    /\ LET polled == PollOn(Bus, call.ask)
           c == [call EXCEPT !.approval = askResponse]
       IN  IF polled.asks[call.ask].pc = "ignored"
           THEN /\ Commit(polled)
                /\ Finish(Outcome(call, "askIgnored", FALSE, Undefined, TRUE))
                /\ UNCHANGED <<didRejectTool, command, turn>>
           ELSE IF AskToolApproval(askResponse)
           THEN /\ Commit(polled)
                /\ call' = [c EXCEPT !.pc = "executing", !.executed = TRUE]
                /\ command' = NoCommand
                /\ turn' = [turn EXCEPT !.executed = @ + 1]
                /\ UNCHANGED <<didRejectTool, lastOutcome>>
           ELSE IF askResponse = "messageResponse"
           THEN /\ Commit(SayOn(polled, "user_feedback", askResponseText,
                                askResponseImages, Undefined))
                /\ call' = [c EXCEPT !.pc = "feedback", !.pending = "denied",
                                     !.feedback = askResponseText]
                /\ turn' = [turn EXCEPT !.declined = TRUE]
                /\ UNCHANGED <<didRejectTool, command, lastOutcome>>
           ELSE /\ Commit(polled)
                /\ didRejectTool' = TRUE
                /\ Finish(Outcome(c, "denied", TRUE, ToolDeniedFeedback(Undefined), FALSE))
                /\ turn' = [turn EXCEPT !.declined = TRUE]
                /\ UNCHANGED command
    /\ UNCHANGED <<now, loopVars, tools, didAlreadyUseTool, callCount>>

\* the say("user_feedback") of a declined call is over: executeTool marks
\* the rejection and returns, with the denial or with the tool's result
FeedbackSaid ==
    /\ call.pc = "feedback"
    /\ didRejectTool' = TRUE
    /\ Finish(Outcome(call, call.pending, TRUE,
                      IF call.pending = "denied"
                      THEN ToolDeniedFeedback(call.feedback) ELSE call.feedback,
                      FALSE))
    /\ UNCHANGED <<now, loopVars, busVars, tools, didAlreadyUseTool, callCount, command, turn>>

\* WriteFileTool.execute returns its result
WriteFileReturns ==
    /\ call.pc = "executing"
    /\ call.name = "write_to_file"
    /\ didAlreadyUseTool' = TRUE
    /\ Finish(Outcome(call, "saved", FALSE, Undefined, FALSE))
    /\ UNCHANGED <<now, loopVars, busVars, tools, didRejectTool, callCount, command, turn>>

\* execute() of a read-only tool returns what the file service gave it,
\* whatever this.context.alwaysAllowReadOnly is
ReadOnlyToolReturns ==
    /\ call.pc = "executing"
    /\ call.name \in ReadOnlyTools
    /\ didAlreadyUseTool' = TRUE
    /\ Finish(Outcome(call, "content", FALSE, Undefined, FALSE))
    /\ UNCHANGED <<now, loopVars, busVars, tools, didRejectTool, callCount, command, turn>>

\* a catch block that counts the failure as a rejection
ToolThrowsMarksRejection ==
    /\ call.pc = "executing"
    /\ call.name = "execute_command" => command = NoCommand
    /\ Commit(SayOn(Bus, "error", "error", Undefined, Undefined))
    /\ didRejectTool' = TRUE
    /\ Finish(Outcome(call, "toolError", TRUE, Undefined, FALSE))
    /\ UNCHANGED <<now, loopVars, tools, didAlreadyUseTool, callCount,
                   command, turn>>

\* tool.execute throws (the file service, or the terminal before the
\* command runs): the catch block of executeTool
ToolThrows ==
    /\ call.pc = "executing"
    /\ call.name = "execute_command" => command = NoCommand
    /\ Commit(SayOn(Bus, "error", "error", Undefined, Undefined))
    /\ Finish(Outcome(call, "toolError", TRUE, Undefined, FALSE))
    /\ UNCHANGED <<now, loopVars, tools, didRejectTool, didAlreadyUseTool, callCount,
                   command, turn>>

Running == call.pc = "executing" /\ call.name = "execute_command"

\* ExecuteCommandTool: the process emits a line of output
CommandLine ==
    /\ Running
    /\ ~command.completed
    /\ command.lines < MaxLines
    /\ command' = [command EXCEPT !.lines = @ + 1]
    /\ IF ~command.didContinue
       THEN Commit(AskOn(Bus, "command_output", "line", Undefined, "command", call.id))
       ELSE Commit(SayOn(Bus, "command_output", "line", Undefined, Undefined))
    /\ UNCHANGED <<now, loopVars, tools, didRejectTool, didAlreadyUseTool, call,
                   callCount, turn, lastOutcome>>

\* ExecuteCommandTool.sendCommandOutput: its ask ends; the locals it sets
\* belong to the execute() run that made the ask
CommandOutputResolved(a) ==
    /\ asks[a].caller = "command"
    /\ CanPoll(Bus, a)
    /\ Commit(PollOn(Bus, a))
    /\ IF /\ PollOn(Bus, a).asks[a].pc = "returned"
          /\ Running /\ asks[a].callId = call.id
       THEN command' = [command EXCEPT
                !.didContinue = TRUE,
                !.userFeedback = IF askResponse # "yesButtonClicked"
                                 THEN [set |-> TRUE, text |-> askResponseText,
                                       images |-> askResponseImages]
                                 ELSE @]
       ELSE UNCHANGED command
    /\ UNCHANGED <<now, loopVars, tools, didRejectTool, didAlreadyUseTool, call,
                   callCount, turn, lastOutcome>>

\* ExecuteCommandTool: the process emits "completed"
CommandCompleted ==
    /\ Running
    /\ ~command.completed
    /\ command' = [command EXCEPT !.completed = TRUE]
    /\ UNCHANGED <<now, loopVars, busVars, tools, didRejectTool, didAlreadyUseTool, call,
                   callCount, turn, lastOutcome>>

\* ExecuteCommandTool.execute after "await process", and the code of
\* executeTool that receives its result
ExecuteCommandReturns ==
    /\ Running
    /\ command.completed \/ command.didContinue
    /\ IF command.userFeedback.set
       THEN /\ Commit(SayOn(Bus, "user_feedback", command.userFeedback.text,
                            command.userFeedback.images, Undefined))
            /\ call' = [call EXCEPT !.pc = "feedback", !.pending = "commandFeedback",
                                    !.feedback = command.userFeedback.text]
            /\ turn' = [turn EXCEPT !.declined = TRUE]
            /\ UNCHANGED <<didAlreadyUseTool, lastOutcome>>
       ELSE /\ didAlreadyUseTool' = TRUE
            /\ Finish(Outcome(call, IF command.completed THEN "commandExecuted"
                                    ELSE "commandRunning", FALSE, Undefined, FALSE))
            /\ UNCHANGED <<busVars, turn>>
    /\ UNCHANGED <<now, loopVars, tools, didRejectTool, callCount, command>>

\* what the operator can send: a button, or a message with text and images
OperatorInputs(texts, images) ==
    {<<"yesButtonClicked", Undefined, Undefined>>,
     <<"noButtonClicked", Undefined, Undefined>>}
    \cup {<<"messageResponse", t, i>> : t \in texts, i \in images}

AskCalls(kinds, texts) ==
    \E k \in kinds, t \in texts, p \in PartialArgs : Ask(k, t, p)

AskPolls == \E a \in DOMAIN asks : AskPoll(a)

SayCalls(kinds, texts, images) ==
    \E k \in kinds, t \in texts, i \in images, p \in PartialArgs : Say(k, t, i, p)

\* the operator answers any prompt that is still open, or sends a message
\* unprompted
OperatorResponds(texts, images) ==
    /\ delivered.id < MaxResponses
    /\ \E r \in OperatorInputs(texts, images), a \in Answerable :
          HandleWebviewAskResponse(r[1], r[2], r[3], a)

\* the operator answers the prompt on display, the latest one, or sends a
\* message while none is open; one answer at a time
LatestPrompt == CHOOSE a \in Answerable : \A b \in Answerable : b <= a

OperatorAnswers(texts, images) ==
    /\ askResponse = Undefined
    /\ \E r \in OperatorInputs(texts, images) :
          HandleWebviewAskResponse(r[1], r[2], r[3], LatestPrompt)

\* the operator answers the prompt on display while its ask is waiting
OperatorAnswersPrompt(texts, images) ==
    /\ LatestPrompt # 0
    /\ asks[LatestPrompt].pc = "waiting"
    /\ OperatorAnswers(texts, images)

Outstanding == {a \in DOMAIN asks :
                    asks[a].pc = "waiting" /\ asks[a].askTs = lastMessageTs}

\* time passes while a prompt registered in this millisecond is open
TickWhilePrompting ==
    /\ \E a \in Outstanding : asks[a].askTs = now
    /\ Tick

\* another caller's say() supersedes the open prompt
SupersedingSay ==
    /\ \E a \in Outstanding : asks[a].askTs < now
    /\ Commit(SayOn(Bus, "text", "t1", Undefined, Undefined))
    /\ UNCHANGED <<now, loopVars, toolVars>>

\* the bus under callers that exercise ask(): two kinds of prompt, one
\* kind of notification
Next ==
    \/ Tick
    \/ AskCalls(AskKinds, {"t1"})
    \/ AskPolls
    \/ SayCalls({"text"}, {"t1"}, {Undefined})
    \/ OperatorResponds({"t1"}, {Undefined})

Spec == Init /\ [][Next]_vars

\* the log under callers that exercise say(): every text and attachment,
\* with prompts of the kind that say() shares with ask()
NextSay ==
    \/ Tick
    \/ AskCalls({"command_output"}, {"t1"})
    \/ SayCalls(SayKinds, Texts, ImageSets)

SpecSay == Init /\ [][NextSay]_vars

\* the dispatcher with its tools, the operator, and notifications of other
\* callers that arrive while a prompt is open; the commands run here
\* print nothing
NextTools ==
    \/ TickWhilePrompting
    \/ \E n \in ToolNames : RegisterTool(n)
    \/ Reset
    \/ \E n \in ToolNames, ps \in ParamSets : ExecuteTool(n, ps)
    \/ ApprovalResolved
    \/ FeedbackSaid
    \/ WriteFileReturns
    \/ ToolThrows
    \/ CommandCompleted
    \/ ExecuteCommandReturns
    \/ OperatorAnswers(Texts, {Undefined})
    \/ SupersedingSay

SpecTools == Init /\ [][NextTools]_vars

\* the dispatcher running commands that print lines of output
NextCommand ==
    \/ NextTools
    \/ CommandLine
    \/ \E a \in DOMAIN asks : CommandOutputResolved(a)

SpecCommand == Init /\ [][NextCommand]_vars

\* ExecuteCommandTool: the listener of process.on("line") outlives the
\* execute() run that returned "still running"; its didContinue is true,
\* so the line is sent with say()
BackgroundCommandLine ==
    /\ ~Running
    /\ command.didContinue /\ ~command.completed
    /\ command.lines < MaxLines + MaxBackgroundLines
    /\ command' = [command EXCEPT !.lines = @ + 1]
    /\ Commit(SayOn(Bus, "command_output", "line", Undefined, Undefined))
    /\ UNCHANGED <<now, loopVars, tools, didRejectTool, didAlreadyUseTool, call,
                   callCount, turn, lastOutcome>>

\* the dispatcher over several turns with a command that keeps printing
\* after its call returned, the operator, and another caller that streams
\* a notification
NextBackground ==
    \/ TickWhilePrompting
    \/ RegisterTool("execute_command")
    \/ Reset
    \/ ExecuteTool("execute_command", {"command"})
    \/ ApprovalResolved
    \/ FeedbackSaid
    \/ CommandLine
    \/ \E a \in DOMAIN asks : CommandOutputResolved(a)
    \/ CommandCompleted
    \/ ExecuteCommandReturns
    \/ BackgroundCommandLine
    \/ OperatorAnswers({}, {})
    \/ \E p \in PartialArgs : Say("text", "t1", Undefined, p)

SpecBackground == Init /\ [][NextBackground]_vars

\* the task loop with its presenter, the provider's stream, the operator
\* and the external abort
NextLoop ==
    \/ BeginRequest
    \/ StartStream
    \/ CreateApiStream
    \/ TruncationThrows
    \/ \E c \in ParsedAfterChunk(assistantMessageContent) : StreamChunk(c)
    \/ AfterChunk
    \/ StreamEnds
    \/ StreamFails
    \/ AbortHandled
    \/ Updated
    \/ ReadyPolled
    \/ AbortTask
    \/ \E a \in activations : PresenterSayDone(a)
    \/ \E a \in activations : PresenterBrowserClosed(a)
    \/ \E a \in activations : PresenterPartialAskDone(a)
    \/ \E a \in activations : PresenterApprovalResolved(a)
    \/ \E a \in activations : PresenterFeedbackSaid(a)
    \/ \E a \in activations : PresenterToolReturns(a)
    \/ \E a \in activations : PresenterToolThrows(a)
    \/ \E a \in activations : PresenterErrorSaid(a)
    \/ OperatorAnswersPrompt({"t1"}, {Undefined})
    \/ TickWhilePrompting

SpecLoop == Init /\ [][NextLoop]_vars

\* the same, where every continuation of the program that can run does
\* run, and the operator does answer the prompt on display
SpecLoopFair ==
    /\ SpecLoop
    /\ WF_vars(BeginRequest \/ StartStream \/ CreateApiStream \/ AfterChunk \/ StreamEnds
                \/ AbortHandled \/ Updated \/ ReadyPolled)
    /\ WF_vars(\E a \in activations :
                  \/ PresenterSayDone(a) \/ PresenterBrowserClosed(a)
                  \/ PresenterPartialAskDone(a) \/ PresenterApprovalResolved(a)
                  \/ PresenterFeedbackSaid(a) \/ PresenterToolReturns(a)
                  \/ PresenterErrorSaid(a))
    /\ WF_vars(OperatorAnswersPrompt({"t1"}, {Undefined}))

\* say() of a text block or closeBrowser() before a tool rejects: the
\* activation ends by the exception, past the lock and short of the line
\* that releases it. The stream loop's await rethrows it: in the loop
\* over the chunks into the catch block that aborts the task, after the
\* loop into the catch block that ends recursivelyMakeClineRequests; an
\* activation nobody awaits leaves a rejected promise
PresenterThrows(a) ==
    /\ a.pc \in {"say", "tool"}
    /\ activations' = activations \ {a}
    /\ IF a.awaited /\ loop.pc = "presentAwait"
       THEN /\ abort' = TRUE
            /\ loop' = [loop EXCEPT !.pc = "aborting"]
       ELSE IF a.awaited /\ loop.pc = "finalPresentAwait"
       THEN /\ loop' = [loop EXCEPT !.pc = "done"]
            /\ UNCHANGED abort
       ELSE UNCHANGED <<abort, loop>>
    /\ UNCHANGED <<now, busVars, toolVars, assistantMessageContent,
                   didCompleteReadingStream, currentStreamingContentIndex,
                   presentAssistantMessageLocked,
                   presentAssistantMessageHasPendingUpdates,
                   userMessageContentReady, clineDidRejectTool,
                   clineDidAlreadyUseTool, shown, userMessageContent,
                   consecutiveMistakeCount, historyVars>>

\* the task loop where the services the presenter calls can fail
NextLoopThrows ==
    \/ NextLoop
    \/ \E a \in activations : PresenterThrows(a)

SpecLoopThrows == Init /\ [][NextLoopThrows]_vars

\* the same under the fairness of SpecLoopFair: a service can fail, and
\* need not
SpecLoopThrowsFair ==
    /\ SpecLoopThrows
    /\ WF_vars(BeginRequest \/ StartStream \/ CreateApiStream \/ AfterChunk \/ StreamEnds
                \/ AbortHandled \/ Updated \/ ReadyPolled)
    /\ WF_vars(\E a \in activations :
                  \/ PresenterSayDone(a) \/ PresenterBrowserClosed(a)
                  \/ PresenterPartialAskDone(a) \/ PresenterApprovalResolved(a)
                  \/ PresenterFeedbackSaid(a) \/ PresenterToolReturns(a)
                  \/ PresenterErrorSaid(a))
    /\ WF_vars(OperatorAnswersPrompt({"t1"}, {Undefined}))

\* the task loop of a provider whose tool blocks are all attempt_completion
NextCompletion ==
    \/ BeginRequest
    \/ StartStream
    \/ CreateApiStream
    \/ TruncationThrows
    \/ \E c \in ParsedAfterChunk(assistantMessageContent) : StreamChunk(c)
    \/ AfterChunk
    \/ StreamEnds
    \/ StreamFails
    \/ AbortHandled
    \/ Updated
    \/ ReadyPolled
    \/ AbortTask
    \/ \E a \in activations : PresenterSayDone(a)
    \/ \E a \in activations, r \in BOOLEAN : PresenterCompletionShown(a, r)
    \/ \E a \in activations : PresenterCompletionAsked(a)
    \/ \E a \in activations : PresenterCompletionResolved(a)
    \/ \E a \in activations : PresenterCompletionFeedbackSaid(a)
    \/ \E a \in activations : PresenterErrorSaid(a)
    \/ OperatorAnswersPrompt({"t1"}, {Undefined})
    \/ TickWhilePrompting

SpecCompletion == Init /\ [][NextCompletion]_vars

\* ------------------------------------- Cline: the task loop and its tools
\* the task loop of a provider whose streams end without content, with
\* the dispatcher it resets at every request; executeTool is called on
\* write_to_file by some caller
NextTurnTools ==
    \/ BeginRequest
    \/ StartStream
    \/ CreateApiStream
    \/ StreamEnds
    \/ Updated
    \/ RegisterTool("write_to_file")
    \/ \E ps \in {{}, {"path", "content"}} : ExecuteTool("write_to_file", ps)
    \/ ApprovalResolved
    \/ FeedbackSaid
    \/ WriteFileReturns
    \/ ToolThrows
    \/ OperatorAnswersPrompt({"t1"}, {Undefined})

SpecTurnTools == Init /\ [][NextTurnTools]_vars

\* ---------------------------------------------------- Cline: constructor
\* what a caller can pass: a history item or none, a task text (none, the
\* empty string, a text), images (none, an empty array, an array with an
\* image), the option (none, true, false)
HistoryItems == {Undefined, "h1"}
TaskTexts == {Undefined, "", "t1", "t2"}
ImageArgs == {Undefined, "[]", "[img]"}
OptionArgs == {Undefined, "true", "false"}

\* the truth value JavaScript gives an argument: undefined and the empty
\* string are false, an array is true even if empty
Truthy(v) == v # Undefined /\ v # ""

\* initializeTools: the nine tools of a task
RegisteredTools ==
    ToolNames \cup ReadOnlyTools
        \cup {"browser_action", "ask_followup_question", "attempt_completion"}

\* a constructor that starts a task whenever it has no history item
ConstructorBranchAlwaysStarts(historyItem, task, images) ==
    IF Truthy(historyItem) THEN "resumed" ELSE "started"

\* if (historyItem) ... else if (task || images) ... else throw
ConstructorBranch(historyItem, task, images) ==
    IF Truthy(historyItem) THEN "resumed"
    ELSE IF Truthy(task) \/ Truthy(images) THEN "started"
    ELSE "failed"

\* new Cline(provider, apiConfiguration, customInstructions,
\* alwaysAllowReadOnly, task, images, historyItem): the option is stored,
\* the tools are registered, and startTask runs up to its say() of the
\* task, or resumeTaskFromHistory is called, or the constructor throws
Construct ==
    /\ creation.state = "args"
    /\ alwaysAllowReadOnly' = (creation.alwaysAllowReadOnly = "true")
    /\ tools' = RegisteredTools
    /\ LET branch == ConstructorBranch(creation.historyItem, creation.task,
                                       creation.images)
       IN  /\ creation' = [creation EXCEPT !.state = branch]
           /\ IF branch = "started"
              THEN Commit(SayOn(Bus, "text", creation.task, creation.images,
                                Undefined))
              ELSE UNCHANGED busVars
    /\ UNCHANGED <<now, didRejectTool, didAlreadyUseTool, call, callCount,
                   command, turn, lastOutcome, abort, assistantMessageContent,
                   didCompleteReadingStream, loop, presenterVars,
                   apiConversationHistory, apiReqTokens, contextWindow>>

\* the constructor is about to run on the arguments of some caller
InitCreate ==
    /\ InitHandlers
    /\ InitStreaming
    /\ loop = NewLoop
    /\ apiConversationHistory = <<>>
    /\ apiReqTokens = NoTokens
    /\ contextWindow = 0
    /\ alwaysAllowReadOnly = FALSE
    /\ \E h \in HistoryItems, t \in TaskTexts, i \in ImageArgs, o \in OptionArgs :
          creation = [state |-> "args", historyItem |-> h, task |-> t,
                      images |-> i, alwaysAllowReadOnly |-> o]

NextCreate == Construct

SpecCreate == InitCreate /\ [][NextCreate]_vars

\* ------------------------------------------- ToolManager, read-only tools
\* a task constructed with or without the option, its read-only tools
\* registered
InitReadOnly ==
    /\ InitHandlersWith(<<>>)
    /\ InitStreaming
    /\ loop = NewLoop
    /\ apiConversationHistory = <<>>
    /\ apiReqTokens = NoTokens
    /\ contextWindow = 0
    /\ \E o \in OptionArgs :
          /\ alwaysAllowReadOnly = (o = "true")
          /\ creation = [StartedTask EXCEPT !.alwaysAllowReadOnly = o]

\* the dispatcher with the read-only tools and the operator
NextReadOnly ==
    \/ TickWhilePrompting
    \/ \E n \in ReadOnlyTools : RegisterTool(n)
    \/ Reset
    \/ \E n \in ReadOnlyTools, ps \in ReadOnlyParamSets : ExecuteTool(n, ps)
    \/ ApprovalResolved
    \/ FeedbackSaid
    \/ ReadOnlyToolReturns
    \/ ToolThrows
    \/ OperatorAnswers({"t1"}, {Undefined})
    \/ SupersedingSay

SpecReadOnly == InitReadOnly /\ [][NextReadOnly]_vars

\* the context windows a model can state (0: none), and token totals
\* around the thresholds they give
ContextWindows == {0, 50000, 200000, 250000}
PreviousTotals == {0, 39999, 40000, 102399, 102400, 159999, 160000,
                   209999, 210000}

\* the history when request n calls createApiStream: its user record
\* after a user and an assistant record of every request before it
HistoryOfRequests(n) ==
    [i \in 1..(2 * n - 1) |->
        HistoryRecord(IF i % 2 = 1 THEN "user" ELSE "assistant", <<>>,
                      (i + 1) \div 2, 0)]

\* the log at that point: of every request its message and, but for the
\* one under way, the log announced by updateApiReqMsg
LogOfRequests(n) ==
    [i \in 1..(2 * n - 1) |->
        IF i % 2 = 1
        THEN Message(1, "say", "api_req_started", "request", Undefined, FALSE)
        ELSE Message(1, "say", "text", "log", Undefined, FALSE)]

\* a task at the createApiStream() call of its request n, for every n up
\* to MaxPairs + 1, context window and token total of the request before
InitTruncate ==
    /\ InitStreaming
    /\ InitConfig
    /\ \E n \in 1..(MaxPairs + 1), w \in ContextWindows, t \in PreviousTotals :
          /\ InitHandlersWith(LogOfRequests(n))
          /\ loop = [NewLoop EXCEPT
                         !.pc = "creating", !.requests = n,
                         !.previousApiReqIndex = IF n = 1 THEN -1 ELSE 2 * n - 4]
          /\ apiConversationHistory = HistoryOfRequests(n)
          /\ apiReqTokens = IF n = 1 THEN NoTokens
                            ELSE [index |-> 2 * n - 4, total |-> t]
          /\ contextWindow = w

NextTruncate ==
    \/ CreateApiStream
    \/ TruncationThrows

SpecTruncate == InitTruncate /\ [][NextTruncate]_vars

\* ------------------------------------------------------------------ claims
LastMessage == clineMessages[Len(clineMessages)]

\* C3: a wait never returns a response that the operator addressed to a
\* different request, one that had already been superseded when the
\* response was delivered and whose token differs from the wait's own
C3_LateResponseDiscarded ==
    \A b \in DOMAIN asks :
        asks[b].pc = "returned" /\ asks[b].respLate /\ asks[b].respFor # b
            => asks[asks[b].respFor].askTs = asks[b].askTs

\* C4: a non-partial ask that was waiting when a newer prompt was
\* registered never returns a response
C4_SupersededNeverReturns ==
    \A a \in DOMAIN asks : asks[a].superseded => asks[a].pc # "returned"

\* C5: an ask with partial=true has finished as soon as it has registered
\* or updated its provisional prompt: it is never left waiting and never
\* returns a response, and the log then holds that provisional prompt
C5_PartialAskReturnsAtOnce ==
    /\ \A a \in DOMAIN asks :
          asks[a].partial = "true" => asks[a].pc = "ignored" /\ asks[a].respId = 0
    /\ lastCall.op = "ask" /\ lastCall.partial = "true" =>
          /\ Len(clineMessages) = lastCall.prevLen + (IF lastCall.coalescing THEN 0 ELSE 1)
          /\ LastMessage.type = "ask" /\ LastMessage.kind = lastCall.kind
          /\ LastMessage.text = lastCall.text /\ LastMessage.partial

\* a partial ask has finished although a delivered response is in store
C5_Witness ==
    /\ lastCall.op = "ask" /\ lastCall.partial = "true" /\ lastCall.coalescing
    /\ askResponse # Undefined
    /\ asks[Len(asks)].pc = "ignored"

\* C6 as stated: a say() that meets a partial say of its kind at the end of
\* the log replaces its text and images and keeps the length, whatever
\* its partial argument; otherwise it appends
C6_SayCoalescesAlways ==
    lastCall.op = "say" =>
        IF lastCall.coalescing
        THEN /\ Len(clineMessages) = lastCall.prevLen
             /\ LastMessage.text = lastCall.text
             /\ LastMessage.images = lastCall.images
        ELSE Len(clineMessages) = lastCall.prevLen + 1

\* C6 amended: the replacement happens for partial=true and partial=false;
\* a say() without a partial argument always appends a new message
C6_SayCoalescesWhenPartialGiven ==
    lastCall.op = "say" =>
        /\ LastMessage.type = "say" /\ LastMessage.kind = lastCall.kind
        /\ LastMessage.text = lastCall.text
        /\ LastMessage.images = lastCall.images
        /\ LastMessage.partial = (lastCall.partial = "true")
        /\ Len(clineMessages) =
              lastCall.prevLen +
                  (IF lastCall.coalescing /\ lastCall.partial # Undefined THEN 0 ELSE 1)

\* a final say() has replaced a partial say of its kind in place
C6_Witness ==
    /\ lastCall.op = "say" /\ lastCall.coalescing /\ lastCall.partial = "false"
    /\ lastCall.images = "img"
    /\ Len(clineMessages) = lastCall.prevLen

\* C7: at most one waiting ask can be resolved by a response
C7_AtMostOneOutstanding == Cardinality(Outstanding) <= 1

\* C8: no response is returned by two asks, and once the stored response
\* has been returned the three response fields are empty
C8_ResponseReturnedOnce ==
    /\ \A a, b \in DOMAIN asks :
          a # b /\ asks[a].pc = "returned" /\ asks[b].pc = "returned"
              => asks[a].respId # asks[b].respId
    /\ (\E a \in DOMAIN asks : asks[a].pc = "returned" /\ asks[a].respId = delivered.id)
          => /\ askResponse = Undefined
             /\ askResponseText = Undefined
             /\ askResponseImages = Undefined

\* one ask has returned a response and a later one is waiting for its own
C8_Witness ==
    \E a, b \in DOMAIN asks :
        /\ a < b /\ asks[a].pc = "returned" /\ asks[a].respId = delivered.id
        /\ b \in Outstanding

\* C1: between two reset() calls at most one executeTool() call reaches
\* tool.execute()
C1_AtMostOneExecutePerTurn == turn.executed <= 1

\* C2: a call is in tool.execute(), or has been, only if the non-partial
\* ask of kind "tool" that this very call issued returned yesButtonClicked
C2_ExecuteOnlyAfterApproval ==
    /\ call.executed =>
          /\ call.ask \in DOMAIN asks
          /\ asks[call.ask].kind = "tool" /\ asks[call.ask].partial = "false"
          /\ asks[call.ask].callId = call.id /\ asks[call.ask].pc = "returned"
          /\ call.approval = "yesButtonClicked"
    /\ call.pc = "executing" => call.executed
    /\ lastOutcome.executed =>
          lastOutcome.asked /\ lastOutcome.approval = "yesButtonClicked"
    /\ lastOutcome.result \in {"denied", "askIgnored"} => ~lastOutcome.executed

\* an approved call is inside tool.execute()
C2_Witness ==
    /\ call.pc = "executing"
    /\ call.approval = "yesButtonClicked"

\* C9: a call made after the operator declined a tool in the same turn
\* ends with the "skipped" note before any suspension: it issues no ask
\* and reaches no tool.execute()
C9_SkippedAfterRejection ==
    /\ call.pc # "idle" => ~call.afterDecline
    /\ lastOutcome.afterDecline =>
          /\ lastOutcome.result = "skipped"
          /\ lastOutcome.userRejected /\ ~lastOutcome.thrown
          /\ ~lastOutcome.asked /\ ~lastOutcome.executed

\* a registered tool was skipped because of an earlier rejection
C9_Witness ==
    /\ lastOutcome.afterDecline
    /\ lastOutcome.result = "skipped"
    /\ lastOutcome.name \in tools
    /\ didRejectTool

\* C10: the result of a call that the operator declined with a message
\* carries the text of that message
C10_DenialCarriesFeedback ==
    lastOutcome.result = "denied" /\ lastOutcome.approval = "messageResponse"
        => lastOutcome.feedback = lastOutcome.operatorFeedback

\* C11 as stated: a call for a name that is not registered ends with the
\* "not found" error in every state of the manager, with no ask and no
\* tool.execute()
C11_NotFoundInEveryState ==
    lastOutcome.name # Undefined /\ ~lastOutcome.registered =>
        /\ lastOutcome.result = "notFound" /\ lastOutcome.thrown
        /\ ~lastOutcome.asked /\ ~lastOutcome.executed

\* C11 amended: such a call issues no ask and reaches no tool.execute();
\* it throws "not found" when neither sticky flag was set, and returns the
\* skip note or the already-used note when one was
C11_NotFoundUnlessSticky ==
    lastOutcome.name # Undefined /\ ~lastOutcome.registered =>
        /\ ~lastOutcome.asked /\ ~lastOutcome.executed
        /\ lastOutcome.result =
              (IF lastOutcome.afterDecline THEN "skipped"
               ELSE IF lastOutcome.afterUse THEN "alreadyUsed" ELSE "notFound")
        /\ lastOutcome.thrown = (lastOutcome.result = "notFound")

\* a call for an unknown name threw "not found" while another tool was
\* registered
C11_Witness ==
    /\ lastOutcome.result = "notFound" /\ lastOutcome.thrown
    /\ ~lastOutcome.registered /\ lastOutcome.missing = Undefined
    /\ tools # {}

\* C12: a call that reaches validateParams of a registered tool and is
\* told of a missing parameter returns the "missing parameter" error
\* result; that result is returned, not thrown, with no ask and no
\* tool.execute()
C12_MissingParamNoAskNoExecute ==
    /\ (/\ lastOutcome.name # Undefined /\ lastOutcome.registered
        /\ ~lastOutcome.afterDecline /\ ~lastOutcome.afterUse
        /\ lastOutcome.missing # Undefined)
          => lastOutcome.result = "missingParam"
    /\ lastOutcome.result = "missingParam" =>
          /\ ~lastOutcome.thrown /\ ~lastOutcome.asked /\ ~lastOutcome.executed
          /\ lastOutcome.registered /\ lastOutcome.missing # Undefined
    /\ call.pc # "idle" => ValidateParams(call.name, call.params) = Undefined

\* write_to_file was called with a path and no content
C12_Witness ==
    /\ lastOutcome.result = "missingParam"
    /\ lastOutcome.name = "write_to_file" /\ lastOutcome.missing = "content"

\* C13: a returned outcome is marked userRejected only when the operator
\* declined: at the approval prompt, during the tool's run, or earlier in
\* the turn
C13_UserRejectedMeansDeclined ==
    lastOutcome.userRejected =>
        lastOutcome.result \in {"denied", "commandFeedback", "skipped"}

\* C14: in a turn the cursor never decreases, it equals the number of
\* blocks finished so far, a suspended activation works on the block the
\* cursor points at while holding the lock, at most one activation is
\* suspended, and no block reaches its approval prompt twice
C14_BlocksInSequenceOnce ==
    /\ [](/\ currentStreamingContentIndex = shown.finished
          /\ currentStreamingContentIndex <= Len(assistantMessageContent)
          /\ Cardinality(activations) <= 1
          /\ \A a \in activations :
                /\ a.index = currentStreamingContentIndex
                /\ presentAssistantMessageLocked
                /\ a.index < Len(assistantMessageContent)
                /\ assistantMessageContent[a.index + 1].type = a.type
          /\ \A i \in DOMAIN shown.dispatched : shown.dispatched[i] <= 1)
    /\ [][loop.requests' = loop.requests =>
             currentStreamingContentIndex' >= currentStreamingContentIndex]_vars

\* the second block of a turn is at its approval prompt after the first
\* was finished
C14_Witness ==
    /\ currentStreamingContentIndex = 1
    /\ shown.dispatched[1] = 1
    /\ \E a \in activations : a.pc = "approval" /\ a.index = 1

\* C15: in one turn "ready" goes from false to true at most once
C15_ReadySetOnce == shown.readySets <= 1

\* C16: when "ready" is true the stream has finished, every block is
\* finished and no activation is at work; "ready" was never set while the
\* stream was still being read
C16_ReadyMeansTurnDone ==
    /\ userMessageContentReady =>
          /\ didCompleteReadingStream
          /\ currentStreamingContentIndex >= Len(assistantMessageContent)
          /\ activations = {}
    /\ ~shown.earlyReady

\* C17: when a further request has begun (the streaming state of the
\* previous turn is still in place), the previous stream has finished,
\* every block of it is finished and no activation is at work
C17_NextCallAfterTurnDone ==
    loop.pc = "preparing" /\ loop.requests >= 1 =>
        /\ didCompleteReadingStream
        /\ currentStreamingContentIndex >= Len(assistantMessageContent)
        /\ activations = {}
        /\ \A a \in DOMAIN asks : asks[a].caller = "presenter" => asks[a].pc # "waiting"

\* the second request has begun after a turn of two blocks in which a
\* tool ran
C17_Witness ==
    /\ loop.pc = "preparing" /\ loop.requests = 1
    /\ Len(assistantMessageContent) = 2
    /\ shown.invoked = 1

\* C18: once abort is set, every ask that is still waiting can end its
\* wait: its pWaitFor condition holds without a response or a newer message
C18_AbortEndsWait ==
    abort => \A a \in DOMAIN asks : asks[a].pc = "waiting" => CanPoll(Bus, a)

\* C19: no tool is invoked after abort was set
C19_NoToolAfterAbort == ~shown.invokedAfterAbort

\* C20: once abort is set (by abortTask or by a stream error) the task
\* loop eventually returns
C20_LoopEndsAfterAbort == abort ~> (loop.pc = "done")

\* a history whose records take turns, the first one a user record
Alternates(h) ==
    \A i \in DOMAIN h : h[i].role = IF i % 2 = 1 THEN "user" ELSE "assistant"

C22_TruncationKeepsShape ==
    [][(loop.truncated' /\ ~loop.truncated) =>
          LET h == apiConversationHistory
              g == apiConversationHistory'
              removed == Len(h) - Len(g)
          IN  /\ h[1].role = "user" /\ g[1] = h[1]
              /\ removed >= 0 /\ removed % 2 = 0
              /\ \A i \in 2..Len(g) : g[i] = h[i + removed]
              /\ Alternates(g)
              /\ Len(g) % 2 = Len(h) % 2
              /\ Len(g) >= 2]_vars

\* nine records have been truncated to five: the first one and the last
\* four, of which the first is the assistant record of the third request
C22_Witness ==
    /\ loop.truncated
    /\ Len(apiConversationHistory) = 5
    /\ apiConversationHistory[2].request = 3

\* C23: before a provider call the history is truncated if and only if
\* there is a request before this one and its token total is at least
\* the larger of contextWindow - 40000 and 0.8 * contextWindow, for a
\* window that is 128000 if the model states none; otherwise, and on the
\* first request, the history is left as it is.
C23_TruncatedIffOverThreshold ==
    [][(loop.pc = "creating" /\ loop.pc' = "streaming") =>
          LET w == IF contextWindow = 0 THEN 128000 ELSE contextWindow
              total == apiReqTokens.total
              over == IF 5 * (w - 40000) >= 4 * w
                      THEN total >= w - 40000
                      ELSE 5 * total >= 4 * w
          IN  /\ loop.truncated' <=> (loop.previousApiReqIndex >= 0 /\ over)
              /\ ~loop.truncated' =>
                    apiConversationHistory' = apiConversationHistory]_vars

\* a request whose predecessor used exactly 102400 tokens of the default
\* window has truncated the history
C23_Witness ==
    /\ loop.pc = "streaming" /\ loop.truncated
    /\ contextWindow = 0 /\ apiReqTokens.total = 102400

C25_NoCallAfterAcceptedCompletion ==
    [][shown.accepted > 0 => ~(loop.pc = "creating" /\ loop.pc' = "streaming")]_vars

\* C26: when a request follows a turn whose output is not empty and has
\* been streamed to its end, the user record it sends holds the notice
\* that no tool was used exactly once if the turn had no tool block, with
\* the mistake counter one above its value at the request before, and
\* holds no such notice if the turn had a tool block.
C26_NoticeOnceAfterTurnWithoutTool ==
    [][(loop.pc = "preparing" /\ loop.pc' = "creating" /\ loop.aliased) =>
          LET h == apiConversationHistory'
              sent == h[Len(h)]
              before == h[Len(h) - 2]
              blocks == assistantMessageContent
          IN  /\ didCompleteReadingStream /\ Len(blocks) > 0
              /\ IF \E i \in DOMAIN blocks : blocks[i].type = "tool_use"
                 THEN sent.notices = 0
                 ELSE /\ sent.notices = 1
                      /\ sent.mistakes = before.mistakes + 1]_vars

\* the second request has sent the notice after a first turn of text
\* alone (no failure of an empty response was reported)
C26_Witness ==
    /\ loop.pc = "creating" /\ loop.requests = 2
    /\ apiConversationHistory[3].notices = 1
    /\ apiConversationHistory[3].mistakes = 1
    /\ \A i \in DOMAIN clineMessages : clineMessages[i].kind # "error"

C28_ReadOnlySkipsApproval ==
    (call.name \in ReadOnlyTools /\ call.pc \in {"approval", "executing"})
    => IF alwaysAllowReadOnly
       THEN call.ask = 0
       ELSE call.ask # 0 /\ (call.pc = "executing" =>
                                call.approval = "yesButtonClicked")

\* C29: at most one activation of presentAssistantMessage is past the lock
\* check, and it holds the lock: a call made meanwhile, by the stream loop
\* or by an activation that re-invokes the presenter, starts no second one.
C29_OneActivationPastLock ==
    /\ Cardinality(activations) <= 1
    /\ activations # {} => presentAssistantMessageLocked

\* the stream loop called the presenter while an activation was suspended
\* at the approval prompt of the second block
C29_Witness ==
    /\ presentAssistantMessageHasPendingUpdates
    /\ \E a \in activations : a.pc = "approval" /\ a.index >= 1 /\ ~a.awaited

\* C30: a call of presentAssistantMessage that met the lock is not lost:
\* the pending flag it set is cleared by the pass that the lock holder
\* starts when it releases the lock, so the flag is never left set once
\* the lock is free.
C30_PendingUpdateGetsItsPass ==
    presentAssistantMessageHasPendingUpdates => presentAssistantMessageLocked

\* C31: a flag of the dispatcher that is set stays set in every step but
\* the one that initialises the streaming state of a new request, the
\* only place where reset() is called; that step leaves both flags clear.
C31_FlagsStickyUntilNewTurn ==
    [][/\ ((didRejectTool /\ ~didRejectTool')
            \/ (didAlreadyUseTool /\ ~didAlreadyUseTool'))
           => loop.pc = "preparing" /\ loop.requests' = loop.requests + 1
       /\ loop.requests' # loop.requests
           => ~didRejectTool' /\ ~didAlreadyUseTool']_vars

\* a second request has begun, and in its turn a call found the use flag
\* set and was turned away
C31_Witness ==
    /\ loop.requests = 2
    /\ didAlreadyUseTool
    /\ lastOutcome.result = "alreadyUsed"

\* C32: when execute() of an approved tool throws, executeTool returns an
\* error result instead of throwing, an error message is in the
\* operator's log, and neither the rejection flag nor the use flag is set.
C32_ToolErrorIsReturned ==
    lastOutcome.result = "toolError" =>
        /\ ~lastOutcome.thrown
        /\ lastOutcome.approval = "yesButtonClicked"
        /\ lastOutcome.executed
        /\ \E i \in DOMAIN clineMessages :
              clineMessages[i].type = "say" /\ clineMessages[i].kind = "error"
        /\ ~didRejectTool
        /\ ~didAlreadyUseTool

\* write_to_file was approved and its execute() threw
C32_Witness ==
    /\ lastOutcome.result = "toolError"
    /\ lastOutcome.name = "write_to_file"
    /\ call.pc = "idle"

\* C33: the step in which handleStreamAbort completes leaves no message of
\* the operator's log partial and has appended one record to the history,
\* the assistant record of the interrupted response, before
\* recursivelyMakeClineRequests ends the task loop.
C33_AbortClosesLogAndHistory ==
    [][loop.pc = "aborting" /\ loop.pc' = "done" =>
          /\ \A i \in DOMAIN clineMessages' : ~clineMessages'[i].partial
          /\ Len(apiConversationHistory') = Len(apiConversationHistory) + 1
          /\ apiConversationHistory'[Len(apiConversationHistory')].role
                = "assistant"]_vars

C35_AtMostOneFlag == ~(didRejectTool /\ didAlreadyUseTool)

\* a tool was used and the call after it, declined at no prompt, was
\* turned away
C35_Witness ==
    /\ didAlreadyUseTool
    /\ lastOutcome.result = "alreadyUsed"
    /\ lastOutcome.afterUse
    /\ ~lastOutcome.asked

\* C36: while the task loop waits for the content of a turn whose stream
\* has ended with output, and abort is not set, "ready" becomes true, and
\* it stays true for as long as the loop waits: the wait can end. The
\* continuations of the program run and the operator answers the prompt
\* on display.
C36_ReadyComes ==
    /\ (loop.pc = "waitReady" /\ ~abort)
          ~> (userMessageContentReady \/ loop.pc # "waitReady" \/ abort)
    /\ [][loop.pc = "waitReady" /\ loop.pc' = "waitReady"
             /\ userMessageContentReady => userMessageContentReady']_vars

\* C37: the presenter's lock is held only while an activation is at work
\* on a block: when an activation has ended, by an error too, the lock is
\* free for the next call. Stated for a task that goes on: abort is not
\* set and the task loop has not ended.
C37_LockFreeWhenNoActivation ==
    presentAssistantMessageLocked /\ ~abort /\ loop.pc # "done"
        => activations # {}

\* C38: a say() that appends a message or finalizes a partial one leaves
\* lastMessageTs at the timestamp of that message, and a non-partial ask
\* that waits with another token keeps another token and can only end
\* "ignored", lines printed by a command after its call returned
\* included; a say() that updates a partial message in place leaves
\* lastMessageTs and every ask as they were
SayAppended == /\ Len(clineMessages') = Len(clineMessages) + 1
               /\ clineMessages'[Len(clineMessages')].type = "say"

SayFinalized == /\ clineMessages # <<>>
                /\ Len(clineMessages') = Len(clineMessages)
                /\ clineMessages[Len(clineMessages)].type = "say"
                /\ clineMessages[Len(clineMessages)].partial
                /\ ~clineMessages'[Len(clineMessages')].partial

SayUpdatedInPlace == /\ clineMessages # <<>>
                     /\ Len(clineMessages') = Len(clineMessages)
                     /\ clineMessages[Len(clineMessages)].type = "say"
                     /\ clineMessages[Len(clineMessages)].partial
                     /\ clineMessages'[Len(clineMessages')].partial
                     /\ lastCall' # lastCall

C38_SaySupersedesWaitingAsks ==
    [][/\ SayAppended \/ SayFinalized =>
            lastMessageTs' = clineMessages'[Len(clineMessages')].ts
       /\ SayUpdatedInPlace => lastMessageTs' = lastMessageTs /\ asks' = asks
       /\ \A a \in DOMAIN asks :
            /\ asks[a].pc = "waiting"
            /\ asks[a].partial # "true"
            /\ asks[a].askTs # lastMessageTs
            => /\ asks'[a].pc \in {"waiting", "ignored"}
               /\ asks'[a].askTs # lastMessageTs']_vars

\* an approval ask ended "ignored" after the command of an earlier call
\* printed a line
C38_Witness ==
    /\ lastOutcome.result = "askIgnored"
    /\ command.lines > MaxLines
    /\ clineMessages[Len(clineMessages)].type = "say"
    /\ clineMessages[Len(clineMessages)].kind = "command_output"


\* C39: a non-partial ask that returned a response returned one that was
\* delivered after the ask had registered, never one that was already in
\* store when it registered
C39_ReturnsOnlyLaterResponse ==
    \A a \in DOMAIN asks : asks[a].pc = "returned" => ~asks[a].respStale

====
